---- MODULE Spec2Model ----
(***************************************************************************)
(* Model of streamlit_app.py: the extraction / normalisation pipeline that *)
(* turns an uploaded grade sheet into one document per student.            *)
(*                                                                         *)
(* Text is a sequence of one-character strings.  Characters outside ASCII  *)
(* are written as tokens: "e:dot" is e with dot above, "E:dot" its capital,*)
(* "^dot" the combining mark NFD splits off, "ndash" the en dash.          *)
(* A cell of the sheet is a record [t, v]: t = "nan" (missing), "num" (a   *)
(* number, v its str() rendering) or "str" (text v).                       *)
(***************************************************************************)
EXTENDS Integers, Sequences, FiniteSets, TLC

VARIABLES pc, arg, out, excel_file, df_students, meta, pos, archive

vars == <<pc, arg, out, excel_file, df_students, meta, pos, archive>>

(***************************************************************************)
(* Characters                                                              *)
(***************************************************************************)
AsciiLower == <<"a","b","c","d","e","f","g","h","i","j","k","l","m",
                "n","o","p","q","r","s","t","u","v","w","x","y","z">>
AsciiUpper == <<"A","B","C","D","E","F","G","H","I","J","K","L","M",
                "N","O","P","Q","R","S","T","U","V","W","X","Y","Z">>
LtLower == <<"a:ogonek","c:caron","e:ogonek","e:dot","i:ogonek",
             "s:caron","u:ogonek","u:macron","z:caron">>
LtUpper == <<"A:ogonek","C:caron","E:ogonek","E:dot","I:ogonek",
             "S:caron","U:ogonek","U:macron","Z:caron">>
LtLowerBase == <<"a","c","e","e","i","s","u","u","z">>
LtUpperBase == <<"A","C","E","E","I","S","U","U","Z">>
LtMark == <<"^ogonek","^caron","^ogonek","^dot","^ogonek",
            "^caron","^ogonek","^macron","^caron">>

Range(f) == {f[i] : i \in DOMAIN f}

LowerLetters == Range(AsciiLower) \cup Range(LtLower)
UpperLetters == Range(AsciiUpper) \cup Range(LtUpper)
Letters == LowerLetters \cup UpperLetters
Digits == {"0","1","2","3","4","5","6","7","8","9"}
\* unicodedata.category(ch) == "Mn"
CombiningMarks == Range(LtMark)

\* what \s and str.strip() take for whitespace
IsSpace(c) == c \in {" ", "\t", "\n"}
\* what \w takes for a word character (\b is a change of IsWord)
IsWord(c) == c \in Letters \cup Digits \cup {"_"}

\* str.lower() on one character
LowerChar(c) ==
    IF \E i \in DOMAIN AsciiUpper : AsciiUpper[i] = c
    THEN AsciiLower[CHOOSE i \in DOMAIN AsciiUpper : AsciiUpper[i] = c]
    ELSE IF \E i \in DOMAIN LtUpper : LtUpper[i] = c
    THEN LtLower[CHOOSE i \in DOMAIN LtUpper : LtUpper[i] = c]
    ELSE c

\* unicodedata.normalize("NFD", ch) on one character
DecomposeChar(c) ==
    IF \E i \in DOMAIN LtLower : LtLower[i] = c
    THEN LET i == CHOOSE j \in DOMAIN LtLower : LtLower[j] = c
         IN  <<LtLowerBase[i], LtMark[i]>>
    ELSE IF \E i \in DOMAIN LtUpper : LtUpper[i] = c
    THEN LET i == CHOOSE j \in DOMAIN LtUpper : LtUpper[j] = c
         IN  <<LtUpperBase[i], LtMark[i]>>
    ELSE <<c>>

(***************************************************************************)
(* Strings                                                                 *)
(***************************************************************************)
Lower(s) == [i \in 1..Len(s) |-> LowerChar(s[i])]

RECURSIVE LStripSet(_, _)
LStripSet(s, cs) ==
    IF s /= <<>> /\ Head(s) \in cs THEN LStripSet(Tail(s), cs) ELSE s

RECURSIVE RStripSet(_, _)
RStripSet(s, cs) ==
    IF s /= <<>> /\ s[Len(s)] \in cs
    THEN RStripSet(SubSeq(s, 1, Len(s) - 1), cs) ELSE s

\* str.strip(chars)
StripChars(s, cs) == RStripSet(LStripSet(s, cs), cs)

\* str.strip()
Strip(s) == StripChars(s, {" ", "\t", "\n"})

StartsWith(s, p) == Len(p) <= Len(s) /\ SubSeq(s, 1, Len(p)) = p

\* p in s
Contains(s, p) ==
    \E i \in 1..(Len(s) - Len(p) + 1) : SubSeq(s, i, i + Len(p) - 1) = p

\* s.split(sep, 1)[1] for a one-character sep that occurs in s
AfterFirst(s, sep) ==
    LET i == CHOOSE j \in 1..Len(s) :
                 s[j] = sep /\ \A k \in 1..(j - 1) : s[k] /= sep
    IN  SubSeq(s, i + 1, Len(s))

\* s.split(sep, 1)[0]
BeforeFirst(s, sep) ==
    LET i == CHOOSE j \in 1..Len(s) :
                 s[j] = sep /\ \A k \in 1..(j - 1) : s[k] /= sep
    IN  SubSeq(s, 1, i - 1)

RECURSIVE Flatten(_)
Flatten(ss) == IF ss = <<>> THEN <<>> ELSE Head(ss) \o Flatten(Tail(ss))

\* "".join(ch for ch in s if ch not in drop)
RECURSIVE DropChars(_, _)
DropChars(s, drop) ==
    IF s = <<>> THEN <<>>
    ELSE (IF Head(s) \in drop THEN <<>> ELSE <<Head(s)>>)
         \o DropChars(Tail(s), drop)

\* all strings over alphabet cs of length at most n
StringsUpTo(cs, n) == UNION {[1..k -> cs] : k \in 0..n}

(***************************************************************************)
(* Text Normalizer                                                         *)
(***************************************************************************)
\* a word boundary between s[i] and s[i+1] (i = 0 and i = Len(s) are the ends)
WordBoundary(s, i) ==
    LET before == i >= 1 /\ IsWord(s[i])
        after == i < Len(s) /\ IsWord(s[i + 1])
    IN  before /= after

\* TAG_PR_IN_RE matches s[i..i+1]
TagAt(s, i) ==
    /\ i + 1 <= Len(s)
    /\ Lower(SubSeq(s, i, i + 1)) \in {<<"p","r">>, <<"i","n">>}
    /\ WordBoundary(s, i - 1)
    /\ WordBoundary(s, i + 1)

\* TAG_PR_IN_RE.sub("", s), scanning from position i
RECURSIVE RemoveTagsFrom(_, _)
RemoveTagsFrom(s, i) ==
    IF i > Len(s) THEN <<>>
    ELSE IF TagAt(s, i) THEN RemoveTagsFrom(s, i + 2)
    ELSE <<s[i]>> \o RemoveTagsFrom(s, i + 1)

RemoveTags(s) == RemoveTagsFrom(s, 1)

\* the length of the run of whitespace that starts at s[i]
RECURSIVE SpaceRun(_, _)
SpaceRun(s, i) ==
    IF i <= Len(s) /\ IsSpace(s[i]) THEN 1 + SpaceRun(s, i + 1) ELSE 0

\* re.sub(r"\s{2,}", " ", s), scanning from position i
RECURSIVE CollapseFrom(_, _)
CollapseFrom(s, i) ==
    IF i > Len(s) THEN <<>>
    ELSE LET n == SpaceRun(s, i)
         IN  IF n >= 2 THEN <<" ">> \o CollapseFrom(s, i + n)
             ELSE <<s[i]>> \o CollapseFrom(s, i + 1)

CollapseSpaces(s) == CollapseFrom(s, 1)

SeparatorChars == {" ", "(", ")", "[", "]", "{", "}", "-", "/", "|", ",", ";", "."}

clean_value_remove_tags(val) ==
    LET s0 == Strip(val)
        s1 == RemoveTags(s0)
        s2 == CollapseSpaces(s1)
        s3 == StripChars(s2, SeparatorChars)
        s4 == Strip(CollapseSpaces(s3))
    IN  IF s0 = <<>> THEN s0 ELSE s4

\* a faulty variant of strip_accents_lower: the accents are kept
strip_accents_lower_keeps_marks(s) == Strip(Lower(s))

\* strip_accents_lower on a str
strip_accents_lower(s) ==
    LET n == Flatten([i \in 1..Len(s) |-> DecomposeChar(s[i])])
        kept == DropChars(n, CombiningMarks)
    IN  Strip(Lower(kept))

(***************************************************************************)
(* Cleaning twice: the input is any short text, cleaned and cleaned again. *)
(***************************************************************************)
MaxLen == 4

CleanAlphabet == {"P", "r", "8", " ", "\t", "."}

NoTable == [columns |-> <<>>, rows |-> <<>>]
NoMeta == [mokykla |-> <<>>, klase |-> <<>>, akadem_metai |-> <<>>]

Idle ==
    /\ excel_file = <<>>
    /\ df_students = NoTable
    /\ meta = NoMeta
    /\ pos = 0
    /\ archive = <<>>

InitClean ==
    /\ pc = "clean_input"
    /\ arg \in StringsUpTo(CleanAlphabet, MaxLen)
    /\ out = <<>>
    /\ Idle

CleanOnce ==
    /\ pc = "clean_input"
    /\ out' = <<clean_value_remove_tags(arg)>>
    /\ pc' = "cleaned_once"
    /\ UNCHANGED <<arg, excel_file, df_students, meta, pos, archive>>

CleanAgain ==
    /\ pc = "cleaned_once"
    /\ out' = Append(out, clean_value_remove_tags(out[1]))
    /\ pc' = "cleaned_twice"
    /\ UNCHANGED <<arg, excel_file, df_students, meta, pos, archive>>

NextClean == CleanOnce \/ CleanAgain

SpecClean == InitClean /\ [][NextClean]_vars

\* C4: clean_value_remove_tags is idempotent: cleaning a cleaned text
\* gives the same text.
C4_Idempotent == pc = "cleaned_twice" => out[2] = out[1]

(***************************************************************************)
(* Class-type classifier                                                   *)
(***************************************************************************)
Whitespace == {" ", "\t", "\n"}

\* FINAL_CLASS_RE.match(k): ^\s*IV\s*[A-Z and the Lithuanian capitals]?\s*$,
\* ignoring case
FinalClassMatch(k) ==
    LET a == LStripSet(k, Whitespace)
    IN  /\ Len(a) >= 2
        /\ Lower(SubSeq(a, 1, 2)) = <<"i", "v">>
        /\ LET b == LStripSet(SubSeq(a, 3, Len(a)), Whitespace)
               c == IF b /= <<>> /\ Head(b) \in Letters THEN Tail(b) ELSE b
           IN  LStripSet(c, Whitespace) = <<>>

\* a faulty variant of Has12Search: 12 anywhere, the \b left out
Has12SearchAnywhere(k) == Contains(k, <<"1", "2">>)

\* HAS_12_RE.search(k): \b12\b
Has12Search(k) ==
    \E i \in 1..(Len(k) - 1) :
        /\ k[i] = "1" /\ k[i + 1] = "2"
        /\ WordBoundary(k, i - 1)
        /\ WordBoundary(k, i + 1)

is_final_class(klase) ==
    IF klase.t /= "str" THEN FALSE
    ELSE LET k == Strip(klase.v)
         IN  IF FinalClassMatch(k) THEN TRUE
             ELSE IF Has12Search(k) THEN TRUE
             ELSE FALSE

MaxLabelLen == 4

ClassAlphabet == {"I", "v", "a", "B", "1", "2", " "}

None == [t |-> "none", v |-> <<>>]
Str(s) == [t |-> "str", v |-> s]

InitClass ==
    /\ pc = "class_input"
    /\ arg \in {None} \cup {Str(s) : s \in StringsUpTo(ClassAlphabet, MaxLabelLen)}
    /\ out = <<>>
    /\ Idle

Classify ==
    /\ pc = "class_input"
    /\ out' = is_final_class(arg)
    /\ pc' = "classified"
    /\ UNCHANGED <<arg, excel_file, df_students, meta, pos, archive>>

NextClass == Classify

SpecClass == InitClass /\ [][NextClass]_vars

\* the maximal runs of word characters of k, as (first, last) positions
WordTokens(k) ==
    {<<i, j>> \in (1..Len(k)) \X (1..Len(k)) :
        /\ i <= j
        /\ \A n \in i..j : IsWord(k[n])
        /\ (i = 1 \/ ~IsWord(k[i - 1]))
        /\ (j = Len(k) \/ ~IsWord(k[j + 1]))}

\* the label reads IV, then whitespace, then at most one letter
RomanFourLabel(k) ==
    \E n \in 2..Len(k) :
        /\ Lower(SubSeq(k, 1, 2)) = <<"i", "v">>
        /\ \A m \in 3..n : IsSpace(k[m])
        /\ \/ n = Len(k)
           \/ n + 1 = Len(k) /\ k[n + 1] \in Letters

\* C9: is_final_class is true exactly for a text that, trimmed, is IV with
\* an optional whitespace-separated single letter, or that holds 12 as a
\* whole token; it is false for anything else and for a non-text input.
C9_FinalClass ==
    pc = "classified" =>
        (out = TRUE <=>
            /\ arg.t = "str"
            /\ LET k == Strip(arg.v)
               IN  \/ RomanFourLabel(k)
                   \/ \E tok \in WordTokens(k) :
                          SubSeq(k, tok[1], tok[2]) = <<"1", "2">>)

C9_Witness ==
    /\ pc = "classified"
    /\ out = TRUE
    /\ arg = Str(<<"I", "v", " ", "B">>)

(***************************************************************************)
(* The sheet: df0 is a sequence of rows, each a sequence of cells; rows and *)
(* columns are counted from 0 as in the code.                              *)
(***************************************************************************)
Nan == [t |-> "nan", v |-> <<>>]
Num(s) == [t |-> "num", v |-> s]

\* df.shape[0], df.shape[1]
NRows(df) == Len(df)
NCols(df) == IF df = <<>> THEN 0 ELSE Len(df[1])
\* df.iat[r, c]
iat(df, r, c) == df[r + 1][c + 1]

Min(a, b) == IF a <= b THEN a ELSE b

(***************************************************************************)
(* Metadata Scanner                                                        *)
(***************************************************************************)
ScanRows == 12
ScanCols == 12

W_mokykla == <<"m","o","k","y","k","l","a">>
W_klase_dot == <<"k","l","a","s","e:dot">>
W_klase == <<"k","l","a","s","e">>
W_mokslo_metai == <<"m","o","k","s","l","o"," ","m","e","t","a","i">>

\* one step of the loop body of try_extract_school_and_class on cell val
SchoolClassStep(acc, val) ==
    IF val.t /= "str" THEN acc
    ELSE LET txt == Strip(val.v)
             low == Lower(txt)
             hasColon == \E i \in 1..Len(txt) : txt[i] = ":"
             m1 == IF Contains(low, W_mokykla) /\ hasColon
                   THEN Strip(AfterFirst(txt, ":")) ELSE acc.mokykla
             k1 == IF (Contains(low, W_klase_dot) \/ Contains(low, W_klase))
                      /\ hasColon
                   THEN Strip(AfterFirst(txt, ":")) ELSE acc.klase
         IN  [mokykla |-> m1, klase |-> k1]

\* the inner loop over the columns of row r; st holds the loop variable c
\* and the two results so far
RECURSIVE SchoolClassCols(_, _, _)
SchoolClassCols(df, r, st) ==
    IF st.c >= Min(ScanCols, NCols(df)) THEN st
    ELSE SchoolClassCols(df, r,
             [c |-> st.c + 1, acc |-> SchoolClassStep(st.acc, iat(df, r, st.c))])

\* the outer loop over the rows; st holds the loop variable r and the two
\* results so far
RECURSIVE SchoolClassRows(_, _)
SchoolClassRows(df, st) ==
    IF st.r >= Min(ScanRows, NRows(df)) THEN st
    ELSE SchoolClassRows(df,
             [r |-> st.r + 1,
              acc |-> SchoolClassCols(df, st.r, [c |-> 0, acc |-> st.acc]).acc])

try_extract_school_and_class(df_raw) ==
    SchoolClassRows(df_raw, [r |-> 0, acc |-> [mokykla |-> <<>>, klase |-> <<>>]]).acc

\* 20\d{2} at s[i..i+3]
YearAt(s, i) ==
    /\ i >= 1 /\ i + 3 <= Len(s)
    /\ s[i] = "2" /\ s[i + 1] = "0"
    /\ s[i + 2] \in Digits /\ s[i + 3] \in Digits

\* where the dash and the second year sit if pat_years matches from s[i]
DashPos(s, i) == i + 4 + SpaceRun(s, i + 4)
SecondYearPos(s, i) == DashPos(s, i) + 1 + SpaceRun(s, DashPos(s, i) + 1)

\* pat_years = (20\d{2})\s*[ndash-]\s*(20\d{2}) matches starting at s[i]
PatYearsAt(s, i) ==
    /\ YearAt(s, i)
    /\ DashPos(s, i) <= Len(s)
    /\ s[DashPos(s, i)] \in {"-", "ndash"}
    /\ YearAt(s, SecondYearPos(s, i))

\* pat_years.search(s) finds a match
PatYearsFound(s) == \E i \in 1..Len(s) : PatYearsAt(s, i)

\* f"{m.group(1)}ndash{m.group(2)}" for the leftmost match
PatYearsFormat(s) ==
    LET i == CHOOSE j \in 1..Len(s) :
                 PatYearsAt(s, j) /\ \A k \in 1..(j - 1) : ~PatYearsAt(s, k)
        g2 == SecondYearPos(s, i)
    IN  SubSeq(s, i, i + 3) \o <<"ndash">> \o SubSeq(s, g2, g2 + 3)

\* a faulty variant of YearStep: a match is kept like a candidate and the
\* scan goes on, so that the last cell wins
YearStepGoesOn(st, val) ==
    IF val.t /= "str" THEN st
    ELSE LET txt == Strip(val.v)
         IN  IF PatYearsFound(txt)
             THEN [returned |-> FALSE, value |-> PatYearsFormat(txt)]
             ELSE IF Contains(Lower(txt), W_mokslo_metai)
             THEN [returned |-> FALSE, value |-> txt]
             ELSE st

\* the loop body of try_extract_academic_year on cell val: it returns
\* (found), or goes on with a candidate
YearStep(st, val) ==
    IF val.t /= "str" THEN st
    ELSE LET txt == Strip(val.v)
         IN  IF PatYearsFound(txt)
             THEN [returned |-> TRUE, value |-> PatYearsFormat(txt)]
             ELSE IF Contains(Lower(txt), W_mokslo_metai)
             THEN IF PatYearsFound(txt)
                  THEN [returned |-> TRUE, value |-> PatYearsFormat(txt)]
                  ELSE [returned |-> FALSE, value |-> txt]
             ELSE st

\* the inner loop: columns c.. of row r, left at the first return
RECURSIVE YearCols(_, _, _, _)
YearCols(df, r, c, st) ==
    IF st.returned \/ c >= Min(ScanCols, NCols(df)) THEN st
    ELSE YearCols(df, r, c + 1, YearStep(st, iat(df, r, c)))

\* the outer loop: rows r.., left at the first return
RECURSIVE YearRows(_, _, _)
YearRows(df, r, st) ==
    IF st.returned \/ r >= Min(ScanRows, NRows(df)) THEN st
    ELSE YearRows(df, r + 1, YearCols(df, r, 0, st))

try_extract_academic_year(df_raw) ==
    YearRows(df_raw, 0, [returned |-> FALSE, value |-> <<>>]).value

(***************************************************************************)
(* Scanning a sheet for its metadata: the sheet is 13 x 13, so that it has *)
(* cells on both sides of the scan window, with a few cells filled in.      *)
(***************************************************************************)
\* "Mokykla: A"
T_Mokykla == <<"M","o","k","y","k","l","a",":"," ","A">>
\* "X: mokykla"
T_X_mokykla == <<"X",":"," ","m","o","k","y","k","l","a">>
\* "Klase:dot:IVa"
T_Klase == <<"K","l","a","s","e:dot",":","I","V","a">>
\* " KLASE : 7 "
T_KLASE == <<" ","K","L","A","S","E"," ",":"," ","7"," ">>
\* "2024-2025"
T_Years == <<"2","0","2","4","-","2","0","2","5">>
\* "2023 ndash 2024"
T_YearsDash == <<"2","0","2","3"," ","ndash"," ","2","0","2","4">>
\* " Mokslo metai "
T_MM == <<" ","M","o","k","s","l","o"," ","m","e","t","a","i"," ">>
\* "mokslo metai 22"
T_MM22 == <<"m","o","k","s","l","o"," ","m","e","t","a","i"," ","2","2">>
\* "mokykla"
T_NoColon == <<"m","o","k","y","k","l","a">>

MetaCells ==
    {Str(t) : t \in {T_Mokykla, T_X_mokykla, T_Klase, T_KLASE, T_Years,
                     T_YearsDash, T_MM, T_MM22, T_NoColon}}
    \cup {Num(<<"2","0","2","4">>)}

MetaPositions == {<<0, 1>>, <<1, 0>>, <<11, 11>>, <<12, 0>>, <<0, 12>>}

MaxMetaCells == 2
MetaSide == 13

\* a sheet of nr x nc cells, missing everywhere but at the places of pl
GridWith(nr, nc, pl) ==
    [r \in 1..nr |-> [c \in 1..nc |->
        IF <<r - 1, c - 1>> \in DOMAIN pl THEN pl[<<r - 1, c - 1>>] ELSE Nan]]

MetaGrids ==
    {GridWith(MetaSide, MetaSide, pl) :
        pl \in UNION {[P -> MetaCells] :
                  P \in {Q \in SUBSET MetaPositions : Cardinality(Q) <= MaxMetaCells}}}

InitMeta ==
    /\ pc = "meta_input"
    /\ excel_file \in MetaGrids
    /\ arg = <<>>
    /\ out = <<>>
    /\ df_students = NoTable
    /\ meta = NoMeta
    /\ pos = 0
    /\ archive = <<>>

ScanSchoolClass ==
    /\ pc = "meta_input"
    /\ LET mk == try_extract_school_and_class(excel_file)
       IN  meta' = [meta EXCEPT !.mokykla = mk.mokykla, !.klase = mk.klase]
    /\ pc' = "school_scanned"
    /\ UNCHANGED <<arg, out, excel_file, df_students, pos, archive>>

ScanYear ==
    /\ pc = "school_scanned"
    /\ meta' = [meta EXCEPT !.akadem_metai = try_extract_academic_year(excel_file)]
    /\ pc' = "meta_scanned"
    /\ UNCHANGED <<arg, out, excel_file, df_students, pos, archive>>

NextMeta == ScanSchoolClass \/ ScanYear

SpecMeta == InitMeta /\ [][NextMeta]_vars

\* the cells of the 12 x 12 scan window
WindowPositions(df) ==
    {p \in (0..(ScanRows - 1)) \X (0..(ScanCols - 1)) :
        p[1] < NRows(df) /\ p[2] < NCols(df)}

RowMajorBefore(p, q) == p[1] < q[1] \/ (p[1] = q[1] /\ p[2] < q[2])
FirstOf(P) == CHOOSE p \in P : \A q \in P \ {p} : RowMajorBefore(p, q)
LastOf(P) == CHOOSE p \in P : \A q \in P \ {p} : RowMajorBefore(q, p)

\* the cell is a text "label: value" whose label holds one of the words
LabelledBy(val, words) ==
    /\ val.t = "str"
    /\ \E i \in 1..Len(val.v) : val.v[i] = ":"
    /\ \E w \in words : Contains(Lower(BeforeFirst(Strip(val.v), ":")), w)

LabelValue(df, words) ==
    LET P == {p \in WindowPositions(df) : LabelledBy(iat(df, p[1], p[2]), words)}
    IN  IF P = {} THEN <<>>
        ELSE LET val == iat(df, LastOf(P)[1], LastOf(P)[2])
             IN  Strip(AfterFirst(Strip(val.v), ":"))

\* C6: institution (class) is the trimmed text after the first colon of the
\* last cell of the window, in row-major order, whose text before the colon
\* holds "mokykla" ("klase" in either spelling), and empty if there is none.
C6_LabelBeforeColon ==
    pc \in {"school_scanned", "meta_scanned"} =>
        /\ meta.mokykla = LabelValue(excel_file, {W_mokykla})
        /\ meta.klase = LabelValue(excel_file, {W_klase_dot, W_klase})

YearCells(df) ==
    {p \in WindowPositions(df) :
        /\ iat(df, p[1], p[2]).t = "str"
        /\ PatYearsFound(iat(df, p[1], p[2]).v)}

SchoolYearCells(df) ==
    {p \in WindowPositions(df) :
        /\ iat(df, p[1], p[2]).t = "str"
        /\ Contains(Lower(iat(df, p[1], p[2]).v), W_mokslo_metai)}

\* C7: the academic year is the year range of the first cell of the window,
\* in row-major order, that holds one, written with an en dash, whatever
\* "mokslo metai" cells come before it; with no such cell it is the (trimmed)
\* text of the last cell that holds "mokslo metai", or empty.
C7_AcademicYear ==
    pc = "meta_scanned" =>
        LET df == excel_file
            Y == YearCells(df)
            M == SchoolYearCells(df)
        IN  meta.akadem_metai =
                IF Y /= {}
                THEN PatYearsFormat(iat(df, FirstOf(Y)[1], FirstOf(Y)[2]).v)
                ELSE IF M /= {}
                THEN Strip(iat(df, LastOf(M)[1], LastOf(M)[2]).v)
                ELSE <<>>

C7_Witness ==
    /\ pc = "meta_scanned"
    /\ iat(excel_file, 0, 1) = Str(T_MM)
    /\ iat(excel_file, 1, 0) = Str(T_YearsDash)
    /\ meta.akadem_metai = <<"2","0","2","3","ndash","2","0","2","4">>

(***************************************************************************)
(* Header Locator                                                          *)
(***************************************************************************)
MaxScan == 40

\* what find_header_rows returns for None
NoRow == -1

W_eil == <<"e","i","l">>
W_pavard == <<"p","a","v","a","r","d">>
W_vard == <<"v","a","r","d">>

\* (str(c).strip() if pd.notna(c) else "").lower()
CellLowerText(c) == IF c.t = "nan" THEN <<>> ELSE Lower(Strip(c.v))

\* a faulty variant of HeaderMatches: either column is enough
HeaderMatchesEither(df, i) ==
    LET c0s == CellLowerText(iat(df, i, 0))
        c1s == CellLowerText(IF NCols(df) > 1 THEN iat(df, i, 1) ELSE Nan)
    IN  StartsWith(c0s, W_eil) \/ Contains(c1s, W_pavard) \/ Contains(c1s, W_vard)

\* the test of row i in find_header_rows
HeaderMatches(df, i) ==
    LET c0 == iat(df, i, 0)
        c1 == IF NCols(df) > 1 THEN iat(df, i, 1) ELSE Nan
        c0s == CellLowerText(c0)
        c1s == CellLowerText(c1)
    IN  StartsWith(c0s, W_eil) /\ (Contains(c1s, W_pavard) \/ Contains(c1s, W_vard))

\* the loop of find_header_rows from row i on
RECURSIVE FindHeaderFrom(_, _)
FindHeaderFrom(df, i) ==
    IF i >= Min(MaxScan, NRows(df))
    THEN [header_row |-> NoRow, subjects_row |-> NoRow]
    ELSE IF HeaderMatches(df, i)
    THEN [header_row |-> i, subjects_row |-> i + 1]
    ELSE FindHeaderFrom(df, i + 1)

find_header_rows(df0) == FindHeaderFrom(df0, 0)

(***************************************************************************)
(* Table Builder                                                           *)
(***************************************************************************)
\* "Eil. Nr."
COL_EIL == <<"E","i","l","."," ","N","r",".">>
\* "Pavard(e:dot), vardas"
COL_NAME == <<"P","a","v","a","r","d","e:dot",","," ","v","a","r","d","a","s">>
\* "Dalykas_"
DALYKAS == <<"D","a","l","y","k","a","s","_">>

DigitChars == <<"0","1","2","3","4","5","6","7","8","9">>

\* str(n) for n >= 0
RECURSIVE IntToStr(_)
IntToStr(n) ==
    IF n < 10 THEN <<DigitChars[n + 1]>>
    ELSE IntToStr(n \div 10) \o <<DigitChars[(n % 10) + 1]>>

\* the name given to column j >= 2 from the subjects row
ColumnName(df, subjects_row, j) ==
    LET cell == iat(df, subjects_row, j)
        name == IF cell.t = "nan" THEN <<>> ELSE Strip(cell.v)
    IN  IF name = <<>> THEN DALYKAS \o IntToStr(j - 1) ELSE name

Columns(df, subjects_row) ==
    [n \in 1..(IF NCols(df) > 2 THEN NCols(df) ELSE 2) |->
        IF n = 1 THEN COL_EIL
        ELSE IF n = 2 THEN COL_NAME
        ELSE ColumnName(df, subjects_row, n - 1)]

\* int(str(v).strip()) does not raise: an optional sign and digits
ParsesAsInt(v) ==
    LET s == Strip(v)
        d == IF s /= <<>> /\ Head(s) \in {"+", "-"} THEN Tail(s) ELSE s
    IN  d /= <<>> /\ \A i \in 1..Len(d) : d[i] \in Digits

\* the while loop that finds the first numbered row
RECURSIVE DataStartFrom(_, _)
DataStartFrom(df, data_start) ==
    IF data_start >= NRows(df) THEN data_start
    ELSE LET v == iat(df, data_start, 0)
         IN  IF v.t /= "nan" /\ ParsesAsInt(v.v) THEN data_start
             ELSE DataStartFrom(df, data_start + 1)

\* the sequence s restricted to the positions idx, in their order
Project(s, idx) == [n \in 1..Len(idx) |-> s[idx[n]]]

\* lines 144-180 of parse_excel_to_df, given the located header
BuildTable(df0, subjects_row) ==
    LET columns == Columns(df0, subjects_row)
        data_start == DataStartFrom(df0, subjects_row + 1)
        data0 == [n \in 1..(NRows(df0) - data_start) |->
                     SubSeq(df0[data_start + n], 1, Len(columns))]
        \* dropna(how="all")
        NotAllNa(row) == \E c \in 1..Len(row) : row[c].t /= "nan"
        data1 == SelectSeq(data0, NotAllNa)
        \* data[data[COL_NAME].notna()]
        HasName(row) == row[2].t /= "nan"
        data2 == SelectSeq(data1, HasName)
        \* keep the subjects with at least one value
        KeepCol(c) ==
            /\ columns[c] \notin {COL_EIL, COL_NAME}
            /\ \E r \in 1..Len(data2) : data2[r][c].t /= "nan"
        keep_cols == <<1, 2>> \o
            SelectSeq([n \in 1..(Len(columns) - 2) |-> n + 2], KeepCol)
    IN  [columns |-> Project(columns, keep_cols),
         rows |-> [r \in 1..Len(data2) |-> Project(data2[r], keep_cols)]]

\* parse_excel_to_df: the table and the metadata, or the error raised
parse_excel_to_df(df0) ==
    LET mk == try_extract_school_and_class(df0)
        akadem_metai_auto == try_extract_academic_year(df0)
        h == find_header_rows(df0)
    IN  IF h.header_row = NoRow
        THEN [error |-> "ValueError", data |-> NoTable, meta |-> NoMeta]
        ELSE IF h.subjects_row >= NRows(df0) /\ NCols(df0) > 2
        THEN [error |-> "IndexError", data |-> NoTable, meta |-> NoMeta]
        ELSE [error |-> "",
              data |-> BuildTable(df0, h.subjects_row),
              meta |-> [mokykla |-> mk.mokykla, klase |-> mk.klase,
                        akadem_metai |-> akadem_metai_auto]]

W_pasiek == <<"p","a","s","i","e","k">>
W_lyg == <<"l","y","g">>

\* ACH_LVL_COL_RE.search(c): pasiek\w*\s*lyg\w*, ignoring case
AchLvlColSearch(c) ==
    LET low == Lower(c)
    IN  \E i \in 1..Len(c) : \E j \in (i + 6)..(Len(c) + 1) : \E k \in j..(Len(c) + 1) :
            /\ i + 5 <= Len(c)
            /\ SubSeq(low, i, i + 5) = W_pasiek
            /\ \A n \in (i + 6)..(j - 1) : IsWord(c[n])
            /\ \A n \in j..(k - 1) : IsSpace(c[n])
            /\ k + 2 <= Len(c)
            /\ SubSeq(low, k, k + 2) = W_lyg

\* "Klas(e:dot)s pa(z:caron)angumas"
SUMMARY_NAME == <<"K","l","a","s","e:dot","s"," ","p","a","z:caron","a","n","g","u","m","a","s">>

\* lines 327-334: drop the level columns, then the summary row
FilterTable(tbl) ==
    LET KeepCol(c) == ~AchLvlColSearch(tbl.columns[c])
        keep == SelectSeq([n \in 1..Len(tbl.columns) |-> n], KeepCol)
        cols == Project(tbl.columns, keep)
        rows == [r \in 1..Len(tbl.rows) |-> Project(tbl.rows[r], keep)]
        nameAt == CHOOSE c \in 1..Len(cols) : cols[c] = COL_NAME
        NotSummary(row) ==
            strip_accents_lower(row[nameAt].v) /= strip_accents_lower(SUMMARY_NAME)
    IN  [columns |-> cols, rows |-> SelectSeq(rows, NotSummary)]

(***************************************************************************)
(* Row Filter / Value Cleaner and the document table                       *)
(***************************************************************************)
LevelNames ==
    {<<"s","l","e","n","k","s","t","i","n","i","s">>,
     <<"p","a","t","e","n","k","i","n","a","m","a","s">>,
     <<"p","a","g","r","i","n","d","i","n","i","s">>,
     <<"a","u","k","s:caron","t","e","s","n","y","s","i","s">>}

\* ACH_LVL_VAL_RE.search(sv): ^(one of the level names)\b, ignoring case
AchLvlValSearch(sv) ==
    \E name \in LevelNames :
        StartsWith(Lower(sv), name) /\ WordBoundary(sv, Len(name))

W_nan == <<"n","a","n">>

\* str(v) of a cell
StrOf(v) == IF v.t = "nan" THEN W_nan ELSE v.v

\* lines 362-373: what the loop body adds to subjects for column col, value v
SubjectEntry(col, v) ==
    LET sv == Strip(StrOf(v))
    IN  IF v.t = "nan" THEN <<>>
        ELSE IF sv = <<>> \/ Lower(sv) = W_nan THEN <<>>
        ELSE IF AchLvlValSearch(sv) THEN <<>>
        ELSE IF clean_value_remove_tags(sv) = <<>> THEN <<>>
        ELSE <<[subj |-> col, val |-> clean_value_remove_tags(sv)]>>

\* lines 358-373: the subjects of one row, in column order
RowSubjects(columns, row) ==
    Flatten([c \in 1..Len(columns) |->
        IF columns[c] \in {COL_EIL, COL_NAME} THEN <<>>
        ELSE SubjectEntry(columns[c], row[c])])

\* lines 280-290: what the loop body adds to data_tbl for one subject
TableRow(e) ==
    LET sval == Strip(e.val)
    IN  IF sval = <<>> \/ Lower(sval) = W_nan THEN <<>>
        ELSE IF AchLvlValSearch(sval) THEN <<>>
        ELSE IF clean_value_remove_tags(sval) = <<>> THEN <<>>
        ELSE <<[subj |-> e.subj, val |-> clean_value_remove_tags(sval)]>>

\* make_student_pdf: the rows of the table under its heading, and the
\* closing sentence
make_student_pdf(klase, subjects_dict) ==
    [data_tbl |-> Flatten([n \in 1..Len(subjects_dict) |-> TableRow(subjects_dict[n])]),
     closing |-> IF is_final_class(Str(klase)) THEN "baige" ELSE "perkeltas"]

\* s.replace(ch, rep) for a one-character ch
Replace(s, ch, rep) ==
    Flatten([i \in 1..Len(s) |-> IF s[i] = ch THEN rep ELSE <<s[i]>>])

\* lines 386-396
SafeName(student_name) ==
    LET a == Replace(student_name, "/", <<"-">>)
        b == Replace(a, "\\", <<"-">>)
        c == Replace(b, ":", <<"-">>)
        d == Replace(c, "*", <<"-">>)
        e == Replace(d, "?", <<>>)
        f == Replace(e, "\"", <<>>)
        g == Replace(f, "<", <<"(">>)
        h == Replace(g, ">", <<")">>)
    IN  Replace(h, "|", <<"-">>)

W_pdf == <<".","p","d","f">>

(***************************************************************************)
(* The sheets that are uploaded                                            *)
(***************************************************************************)
BlankRow == <<Nan, Nan, Nan, Nan>>

MetaRow == <<Str(<<"M","o","k","y","k","l","a",":"," ","A">>),
             Str(<<"K","l","a","s","e:dot",":","I","V","a">>),
             Str(<<"2","0","2","4","-","2","0","2","5">>), Nan>>
\* column 0 starts with "eil", column 1 names no one
DecoyRow == <<Str(<<"E","i","l",".">>), Str(<<"K","l","a","s","e:dot",":","I","V","a">>), Nan, Nan>>
\* column 1 holds "vard", column 0 does not start with "eil"
DecoyRow2 == <<Str(<<"N","r",".">>), Str(<<"V","a","r","d","a","s">>), Nan, Nan>>
HeaderRow == <<Str(<<"E","i","l","."," ","N","r",".">>),
               Str(<<"P","a","v","a","r","d","e:dot",","," ","v","a","r","d","a","s">>), Nan, Nan>>
HeaderRowCaps == <<Str(<<" ","E","I","L"," ","N","R">>),
                   Str(<<"V","A","R","D","A","S"," ">>), Nan, Nan>>

SubjectsRow == <<Nan, Nan, Str(<<"M","a","t">>), Str(<<"F","i","z">>)>>
SubjectsRowGap == <<Nan, Nan, Str(<<"M","a","t">>), Nan>>
SubjectsRowLevel == <<Nan, Nan, Str(<<"M","a","t">>),
                      Str(<<"P","a","s","i","e","k","i","m","u:ogonek"," ","l","y","g","i","s">>)>>

StudentRows ==
    {<<Num(<<"1">>), Str(<<"J","o","n","a","s">>), Num(<<"8">>), Nan>>,
     <<Num(<<"2">>), Str(<<"O","n","a","/","B",":","\"","C","\"","*","?","\\","|">>),
       Str(<<"8"," ","P","R">>), Str(<<"(","P","a","g","r","i","n","d","i","n","i","s",")">>)>>,
     <<Nan, Str(<<"K","l","a","s","e:dot","s"," ","p","a","z:caron","a","n","g","u","m","a","s">>),
       Nan, Num(<<"9","5">>)>>,
     <<Num(<<"3">>), Str(<<" ","K","L","A","S","E","S"," ","P","A","Z","A","N","G","U","M","A","S">>),
       Str(<<"P","a","g","r","i","n","d","i","n","i","s">>), Nan>>,
     <<Num(<<"4">>), Str(<<" ">>), Num(<<"9">>), Nan>>,
     <<Num(<<"5">>), Nan, Nan, Num(<<"6">>)>>,
     <<Str(<<"6">>), Str(<<"K","l","a","s","e:dot","s"," ","p","a","z:caron","a","n","g","u","m","a","s"," ","<","2",">">>),
       Str(<<".","\t",".","8">>), Str(<<"n","a","n"," ","P","R">>)>>}

MaxStudents == 2
LeadRows == 34
MaxBlankRows == 5

StudentParts == UNION {[1..n -> StudentRows] : n \in 0..MaxStudents}

Blanks(n) == [i \in 1..n |-> BlankRow]

\* a plain sheet; one with metadata, a decoy and the header twice; one whose
\* header is far down; one without a header
Layouts ==
    {<<HeaderRow, SubjectsRow>>,
     <<MetaRow, DecoyRow, HeaderRowCaps, HeaderRow, SubjectsRowGap>>,
     <<DecoyRow2>> \o Blanks(LeadRows) \o <<HeaderRow, SubjectsRowLevel>>,
     <<MetaRow, DecoyRow, DecoyRow2, SubjectsRow>>}

Sheets == {top \o part : top \in Layouts, part \in StudentParts}

(***************************************************************************)
(* The application: a sheet is uploaded and parsed, the button is pressed, *)
(* one document per row is written to the archive.  The override fields    *)
(* of the form are left empty.  arg counts the blank rows put on top of    *)
(* the sheet before it is uploaded; out is the error shown, if any.        *)
(***************************************************************************)
Init ==
    /\ pc = "idle"
    /\ excel_file \in Sheets
    /\ arg = 0
    /\ out = ""
    /\ df_students = NoTable
    /\ meta = NoMeta
    /\ pos = 0
    /\ archive = <<>>

\* the sheet gets one more blank row on top before it is uploaded
InsertBlankRow ==
    /\ pc = "idle"
    /\ arg < MaxBlankRows
    /\ excel_file' = <<BlankRow>> \o excel_file
    /\ arg' = arg + 1
    /\ UNCHANGED <<pc, out, df_students, meta, pos, archive>>

\* lines 322-341 and 408-410: the run of the script on the uploaded file
Upload ==
    /\ pc = "idle"
    /\ LET parsed == parse_excel_to_df(excel_file)
       IN  IF parsed.error /= ""
           THEN /\ pc' = "error"
                /\ out' = parsed.error
                /\ UNCHANGED <<df_students, meta>>
           ELSE /\ pc' = "ready"
                /\ df_students' = FilterTable(parsed.data)
                /\ meta' = parsed.meta
                /\ UNCHANGED out
    /\ UNCHANGED <<arg, excel_file, pos, archive>>

\* lines 343-348: the button is pressed
PressGenerate ==
    /\ pc = "ready"
    /\ IF df_students.rows = <<>>
       THEN pc' = "no_rows" /\ out' = "Nerasta duomenu eiluciu" /\ UNCHANGED pos
       ELSE pc' = "generating" /\ pos' = 0 /\ UNCHANGED out
    /\ UNCHANGED <<arg, excel_file, df_students, meta, archive>>

\* lines 349-397: one turn of the loop over the rows, for row pos
GenerateRow ==
    /\ pc = "generating"
    /\ pos < Len(df_students.rows)
    /\ LET row == df_students.rows[pos + 1]
           nameAt == CHOOSE c \in 1..Len(df_students.columns) :
                         df_students.columns[c] = COL_NAME
           student_name == Strip(StrOf(row[nameAt]))
           subjects == RowSubjects(df_students.columns, row)
           pdf == make_student_pdf(meta.klase, subjects)
       IN  IF student_name = <<>> \/ Lower(student_name) = W_nan
           THEN UNCHANGED archive
           ELSE IF strip_accents_lower(student_name) = strip_accents_lower(SUMMARY_NAME)
           THEN UNCHANGED archive
           ELSE archive' = Append(archive,
                    [name |-> SafeName(student_name) \o W_pdf,
                     row |-> pos,
                     student_name |-> student_name,
                     subjects |-> subjects,
                     data_tbl |-> pdf.data_tbl,
                     closing |-> pdf.closing])
    /\ pos' = pos + 1
    /\ UNCHANGED <<pc, arg, out, excel_file, df_students, meta>>

\* lines 399-406: the archive is closed and offered
FinishZip ==
    /\ pc = "generating"
    /\ pos = Len(df_students.rows)
    /\ pc' = "done"
    /\ UNCHANGED <<arg, out, excel_file, df_students, meta, pos, archive>>

Next == InsertBlankRow \/ Upload \/ PressGenerate \/ GenerateRow \/ FinishZip

Spec == Init /\ [][Next]_vars

(***************************************************************************)
(* Properties of the application                                           *)
(***************************************************************************)
\* the table has been built
Built == pc \in {"ready", "no_rows", "generating", "done"}

NameColumn(tbl) == CHOOSE c \in 1..Len(tbl.columns) : tbl.columns[c] = COL_NAME

\* C1: in the final table every kept subject column has a value in some
\* remaining row, and no remaining row lacks its full name.
C1_TableInvariant ==
    Built =>
        /\ \A c \in 1..Len(df_students.columns) :
               df_students.columns[c] \notin {COL_EIL, COL_NAME} =>
                   \E r \in 1..Len(df_students.rows) :
                       df_students.rows[r][c].t /= "nan"
        /\ \A r \in 1..Len(df_students.rows) :
               df_students.rows[r][NameColumn(df_students)].t /= "nan"

\* C2: no cleaned value kept for a subject starts with the name of an
\* achievement level, in any letter case.
C2_NoLevelInSubjects ==
    \A i \in 1..Len(archive) : \A n \in 1..Len(archive[i].subjects) :
        ~\E name \in LevelNames :
            StartsWith(Lower(archive[i].subjects[n].val), name)

UnsafeChars == {"/", "\\", ":", "*", "?", "\"", "<", ">", "|"}

\* C3: when the pass is over, every row of the table has exactly one
\* document in the archive, and no name in the archive holds an unsafe
\* character.
C3_OneDocumentPerRow ==
    pc = "done" =>
        /\ \A r \in 0..(Len(df_students.rows) - 1) :
               Cardinality({i \in 1..Len(archive) : archive[i].row = r}) = 1
        /\ \A i \in 1..Len(archive) : \A k \in 1..Len(archive[i].name) :
               archive[i].name[k] \notin UnsafeChars

\* C10: the table of a document holds exactly the subjects handed to
\* make_student_pdf, in their order and with their values unchanged.
C10_SecondPassNoOp ==
    \A i \in 1..Len(archive) : archive[i].data_tbl = archive[i].subjects

\* "klases pazangumas"
SummaryFolded == <<"k","l","a","s","e","s"," ","p","a","z","a","n","g","u","m","a","s">>

\* the characters that differ from the letter b by case or by an accent only
Variants(b) ==
    {b}
    \cup {AsciiUpper[i] : i \in {j \in DOMAIN AsciiLower : AsciiLower[j] = b}}
    \cup {LtLower[i] : i \in {j \in DOMAIN LtLower : LtLowerBase[j] = b}}
    \cup {LtUpper[i] : i \in {j \in DOMAIN LtLower : LtLowerBase[j] = b}}

\* the name is the summary phrase up to case, accents and outer whitespace
SummaryLike(name) ==
    LET t == Strip(name)
    IN  /\ Len(t) = Len(SummaryFolded)
        /\ \A k \in 1..Len(t) : t[k] \in Variants(SummaryFolded[k])

\* C8: no row named like the summary phrase is in the final table or gets a
\* document, and the rule removes no other row: the names of the final table
\* are the names parse_excel_to_df kept, less the summary-like ones.
C8_SummaryRowDropped ==
    /\ Built =>
           \A r \in 1..Len(df_students.rows) :
               ~SummaryLike(StrOf(df_students.rows[r][NameColumn(df_students)]))
    /\ \A i \in 1..Len(archive) : ~SummaryLike(archive[i].student_name)
    /\ pc = "ready" =>
           LET parsed == parse_excel_to_df(excel_file).data.rows
               NotLike(row) == ~SummaryLike(StrOf(row[2]))
               kept == SelectSeq(parsed, NotLike)
           IN  [r \in 1..Len(df_students.rows) |->
                    df_students.rows[r][NameColumn(df_students)]]
               = [r \in 1..Len(kept) |-> kept[r][2]]

\* " KLASES PAZANGUMAS"
CapsSummary == <<" ","K","L","A","S","E","S"," ","P","A","Z","A","N","G","U","M","A","S">>

C8_Witness ==
    /\ pc = "done"
    /\ Len(archive) = 1
    /\ \E r \in 1..Len(parse_excel_to_df(excel_file).data.rows) :
           parse_excel_to_df(excel_file).data.rows[r][2] = Str(CapsSummary)

\* the rows of the scan range that read as the header
HeaderLikeRows(df) ==
    {i \in 0..(MaxScan - 1) :
        /\ i < NRows(df)
        /\ LET c0 == df[i + 1][1]
               c1 == IF NCols(df) > 1 THEN df[i + 1][2] ELSE Nan
               t0 == IF c0.t = "nan" THEN <<>> ELSE Lower(Strip(c0.v))
               t1 == IF c1.t = "nan" THEN <<>> ELSE Lower(Strip(c1.v))
           IN  /\ Len(t0) >= 3 /\ SubSeq(t0, 1, 3) = <<"e","i","l">>
               /\ \E k \in 1..Len(t1) : \E w \in {W_pavard, W_vard} :
                      k + Len(w) - 1 <= Len(t1) /\ SubSeq(t1, k, k + Len(w) - 1) = w}

SmallestOf(S) == CHOOSE i \in S : \A j \in S : i <= j

HeaderLocated ==
    LET S == HeaderLikeRows(excel_file)
    IN  find_header_rows(excel_file) =
            IF S = {} THEN [header_row |-> NoRow, subjects_row |-> NoRow]
            ELSE [header_row |-> SmallestOf(S), subjects_row |-> SmallestOf(S) + 1]

NoHeaderFails ==
    (pc /= "idle" /\ HeaderLikeRows(excel_file) = {}) =>
        /\ pc = "error"
        /\ df_students = NoTable /\ meta = NoMeta /\ archive = <<>>

BlankRowShifts ==
    (/\ excel_file' = <<BlankRow>> \o excel_file
     /\ find_header_rows(excel_file).header_row /= NoRow
     /\ find_header_rows(excel_file).header_row + 1 < MaxScan)
    => find_header_rows(excel_file').header_row
           = find_header_rows(excel_file).header_row + 1

\* C5: the header is the first row of the first 40 whose column 0 starts with
\* "eil" and whose column 1 holds "pavard" or "vard", the subjects row the one
\* after it; a blank row put on top moves it down by one while it stays in
\* the first 40; a sheet with no such row ends in the error, with no table,
\* metadata or archive.
C5_HeaderLocation ==
    /\ [](HeaderLocated /\ NoHeaderFails)
    /\ [][BlankRowShifts]_vars

C5_Witness ==
    /\ pc = "ready"
    /\ arg = 4
    /\ find_header_rows(excel_file).header_row = MaxScan - 1

====
